---- MODULE Spec2Model ----
(***************************************************************************)
(* Verification model of the project dashboard: the project list view      *)
(* (ProjectsDisplay: search, status filter, sort, pagination), the derived *)
(* per-project metrics, and the role-gated navigation (Sidebar,            *)
(* ProjectManagement).                                                     *)
(*                                                                         *)
(* Conventions.  A JavaScript string is a sequence of one-character        *)
(* strings.  A nullable value v is NULL (the empty tuple) or Some(v) (the  *)
(* one-element tuple <<v>>).  A JavaScript number that only ever holds a   *)
(* small integer is an integer; the one place where the program divides    *)
(* (calculateProgress) is computed in IEEE-754 binary64.                    *)
(* Dates are <<year, month, day>> and getTime() is counted in days.        *)
(***************************************************************************)
EXTENDS Integers, Sequences, FiniteSets, TLC

(***************************************************************************)
(* Bounds of the model.                                                    *)
(***************************************************************************)
\* longest project list a refresh delivers in the list-view specifications
MaxProjects == 19
\* longest project list of the exhaustive small-list specifications
MaxLen == 2
\* largest taskCount of the per-record specification
MaxTasks == 40
\* project-list fetches issued, active-count queries issued, and records a
\* fetch delivers, in the specification of the data source
MaxFetches == 3
MaxQueries == 2
MaxLoaded == 2

(***************************************************************************)
(* Nullable values.                                                        *)
(***************************************************************************)
NULL == <<>>
Some(v) == <<v>>
IsNull(o) == Len(o) = 0
Val(o) == o[1]

(***************************************************************************)
(* Strings: String.prototype.toLowerCase, includes, localeCompare.         *)
(***************************************************************************)
LowerChars == <<"a","b","c","d","e","f","g","h","i","j","k","l","m",
                "n","o","p","q","r","s","t","u","v","w","x","y","z">>
UpperChars == <<"A","B","C","D","E","F","G","H","I","J","K","L","M",
                "N","O","P","Q","R","S","T","U","V","W","X","Y","Z">>

\* the letters, and for each its place in the alphabet and its case
Letters == {LowerChars[i] : i \in 1..Len(LowerChars)}
             \cup {UpperChars[i] : i \in 1..Len(UpperChars)}

LetterIndex ==
  [c \in Letters |->
     CHOOSE i \in 1..Len(LowerChars) : LowerChars[i] = c \/ UpperChars[i] = c]

UpperSet == {UpperChars[i] : i \in 1..Len(UpperChars)}

IsUpper(c) == c \in UpperSet

toLowerCaseChar(c) == IF IsUpper(c) THEN LowerChars[LetterIndex[c]] ELSE c

toLowerCase(s) == [i \in 1..Len(s) |-> toLowerCaseChar(s[i])]

\* s.includes(t): t occurs in s as a contiguous run of characters.
includes(s, t) ==
  \E k \in 0..(Len(s) - Len(t)) :
    \A i \in 1..Len(t) : s[k + i] = t[i]

\* primary collation weight of a letter: its place in the alphabet
CharRank(c) == LetterIndex[c]

\* lexicographic three-way comparison of two sequences of integers
RECURSIVE LexCompare(_, _)
LexCompare(x, y) ==
  IF Len(x) = 0 /\ Len(y) = 0 THEN 0
  ELSE IF Len(x) = 0 THEN -1
  ELSE IF Len(y) = 0 THEN 1
  ELSE IF x[1] < y[1] THEN -1
  ELSE IF x[1] > y[1] THEN 1
  ELSE LexCompare(Tail(x), Tail(y))

\* a.localeCompare(b) on strings of ASCII letters: the letters decide first
\* (primary strength), and between strings that differ only in case the
\* first differing position decides, lower case before upper case.
localeCompare(a, b) ==
  LET primary == LexCompare([i \in 1..Len(a) |-> CharRank(a[i])],
                            [i \in 1..Len(b) |-> CharRank(b[i])])
      caseOf(s) == [i \in 1..Len(s) |-> IF IsUpper(s[i]) THEN 1 ELSE 0]
  IN IF primary # 0 THEN primary ELSE LexCompare(caseOf(a), caseOf(b))

(***************************************************************************)
(* IEEE-754 binary64 arithmetic on the values calculateProgress computes.  *)
(* A 53-bit significand is held as five limbs <<top, l1, l2, l3, l4>> in   *)
(* base 2^13: its integer value is top * 2^52 + l1 * 2^39 + l2 * 2^26 +    *)
(* l3 * 2^13 + l4.  A positive double is [k |-> shift, limbs |-> limbs]    *)
(* and stands for the number  limbs * 2^(-k-52).                           *)
(***************************************************************************)
LimbBase == 8192

RECURSIVE Pow2(_)
Pow2(k) == IF k = 0 THEN 1 ELSE 2 * Pow2(k - 1)

\* the least k with c * 2^k >= t
RECURSIVE ShiftToOne(_, _)
ShiftToOne(c, t) == IF c >= t THEN 0 ELSE 1 + ShiftToOne(2 * c, t)

\* carries every limb but the top one back below the base
CarryLimbs(x) ==
  LET c4 == x[5] \div LimbBase
      c3 == (x[4] + c4) \div LimbBase
      c2 == (x[3] + c3) \div LimbBase
      c1 == (x[2] + c2) \div LimbBase
  IN <<x[1] + c1, (x[2] + c2) % LimbBase, (x[3] + c3) % LimbBase,
       (x[4] + c4) % LimbBase, x[5] % LimbBase>>

\* c / t in binary64, for integers 0 < c <= t: the quotient's first 53 bits
\* by long division, rounded to nearest, ties to even, on the remainder
DoubleDivide(c, t) ==
  LET k == ShiftToOne(c, t)
      r0 == c * Pow2(k) - t
      f1 == (r0 * LimbBase) \div t
      r1 == (r0 * LimbBase) % t
      f2 == (r1 * LimbBase) \div t
      r2 == (r1 * LimbBase) % t
      f3 == (r2 * LimbBase) \div t
      r3 == (r2 * LimbBase) % t
      f4 == (r3 * LimbBase) \div t
      r4 == (r3 * LimbBase) % t
      up == IF 2 * r4 > t \/ (2 * r4 = t /\ f4 % 2 = 1) THEN 1 ELSE 0
  IN [k |-> k, limbs |-> CarryLimbs(<<1, f1, f2, f3, f4 + up>>)]

\* x * 100 in binary64: the exact product has 59 or 60 bits, of which the
\* lowest 6 or 7 (all within the last limb) are rounded away, to nearest,
\* ties to even
DoubleTimes100(x) ==
  LET p == CarryLimbs([i \in 1..5 |-> 100 * x.limbs[i]])
      unit == IF p[1] >= 128 THEN 128 ELSE 64
      low == p[5] % unit
      kept == p[5] \div unit
      up == IF 2 * low > unit \/ (2 * low = unit /\ kept % 2 = 1) THEN 1 ELSE 0
  IN [k |-> x.k,
      limbs |-> CarryLimbs(<<p[1], p[2], p[3], p[4], (kept + up) * unit>>)]

\* Math.round(x) for a positive double: the integer part, plus one when the
\* fraction is at least one half
MathRound(x) ==
  LET top == x.limbs[1]
      half == IF x.k = 0 THEN x.limbs[2] \div (LimbBase \div 2)
              ELSE (top \div Pow2(x.k - 1)) % 2
  IN (top \div Pow2(x.k)) + half

(***************************************************************************)
(* Dates: new Date(s).getTime(), counted in days since 1970-01-01.         *)
(***************************************************************************)
IsLeapYear(y) == (y % 4 = 0 /\ y % 100 # 0) \/ y % 400 = 0

DaysBeforeYear(y) ==
  365 * (y - 1970) + ((y - 1969) \div 4) - ((y - 1901) \div 100)
    + ((y - 1601) \div 400)

DaysBeforeMonth == <<0, 31, 59, 90, 120, 151, 181, 212, 243, 273, 304, 334>>

getTime(date) ==
  DaysBeforeYear(date[1]) + DaysBeforeMonth[date[2]]
    + (IF date[2] > 2 /\ IsLeapYear(date[1]) THEN 1 ELSE 0)
    + (date[3] - 1)

(***************************************************************************)
(* Status values and the other enumerated strings of the list view.        *)
(***************************************************************************)
Planning == <<"P","l","a","n","n","i","n","g">>
InProgress == <<"I","n","P","r","o","g","r","e","s","s">>
Completed == <<"C","o","m","p","l","e","t","e","d">>
OnHold == <<"O","n","H","o","l","d">>
Cancelled == <<"C","a","n","c","e","l","l","e","d">>
\* the value of the "All Statuses" option
AllStatuses == <<"a","l","l">>

EmptyString == <<>>

SortKeys == {"name", "status", "capacity", "startDate", "progress"}
ViewModes == {"grid", "list"}

(***************************************************************************)
(* ProjectsDisplay: derived per-project metrics.                           *)
(***************************************************************************)
\* Math.round((completedTaskCount / taskCount) * 100), in binary64; a zero
\* numerator gives the double 0, which stays 0
calculateProgress(project) ==
  IF project.taskCount = 0 THEN 0
  ELSE IF project.completedTaskCount = 0 THEN 0
  ELSE MathRound(DoubleTimes100(
         DoubleDivide(project.completedTaskCount, project.taskCount)))

StatusIs(project, status) ==
  ~IsNull(project.status) /\ Val(project.status) = status

getPriorityInclusive(project) ==
  LET progress == calculateProgress(project)
  IN IF StatusIs(project, OnHold) THEN "High"
     ELSE IF StatusIs(project, InProgress) /\ progress <= 30 THEN "Medium"
     ELSE IF StatusIs(project, Planning) THEN "Low"
     ELSE "Normal"

getPriority(project) ==
  LET progress == calculateProgress(project)
  IN IF StatusIs(project, OnHold) THEN "High"
     ELSE IF StatusIs(project, InProgress) /\ progress < 30 THEN "Medium"
     ELSE IF StatusIs(project, Planning) THEN "Low"
     ELSE "Normal"

(***************************************************************************)
(* ProjectsDisplay: the derivation pipeline filter -> sort -> paginate.    *)
(***************************************************************************)
itemsPerPage == 9

\* field?.toLowerCase() || ""
LowerOrEmpty(field) == IF IsNull(field) THEN EmptyString ELSE toLowerCase(Val(field))

\* field || "" and field || 0
StringOrEmpty(field) == IF IsNull(field) THEN EmptyString ELSE Val(field)
NumberOrZero(field) == IF IsNull(field) THEN 0 ELSE Val(field)

matchesSearchCaseSensitiveTerm(project, term) ==
  \/ includes(LowerOrEmpty(project.projectName), term)
  \/ includes(LowerOrEmpty(project.address), term)
  \/ includes(LowerOrEmpty(project.clientInfo), term)

matchesSearch(project, term) ==
  \/ includes(LowerOrEmpty(project.projectName), toLowerCase(term))
  \/ includes(LowerOrEmpty(project.address), toLowerCase(term))
  \/ includes(LowerOrEmpty(project.clientInfo), toLowerCase(term))

matchesStatus(project, filter) ==
  filter = AllStatuses \/ StatusIs(project, filter)

FilterEitherPredicate(list, term, filter) ==
  SelectSeq(list, LAMBDA project :
    matchesSearch(project, term) \/ matchesStatus(project, filter))

Filter(list, term, filter) ==
  SelectSeq(list, LAMBDA project :
    matchesSearch(project, term) /\ matchesStatus(project, filter))

\* the comparator handed to Array.prototype.sort
compare(a, b, key) ==
  CASE key = "name" ->
         localeCompare(StringOrEmpty(a.projectName), StringOrEmpty(b.projectName))
    [] key = "status" ->
         localeCompare(StringOrEmpty(a.status), StringOrEmpty(b.status))
    [] key = "capacity" ->
         NumberOrZero(b.totalCapacityKw) - NumberOrZero(a.totalCapacityKw)
    [] key = "startDate" -> getTime(a.startDate) - getTime(b.startDate)
    [] key = "progress" -> calculateProgress(b) - calculateProgress(a)
    [] OTHER -> 0

\* Array.prototype.sort is stable: an element goes behind every element
\* already placed that does not compare greater than it
RECURSIVE InsertSorted(_, _, _)
InsertSorted(sorted, x, key) ==
  IF Len(sorted) = 0 THEN <<x>>
  ELSE IF compare(sorted[Len(sorted)], x, key) > 0
    THEN InsertSorted(SubSeq(sorted, 1, Len(sorted) - 1), x, key)
           \o <<sorted[Len(sorted)]>>
    ELSE Append(sorted, x)

RECURSIVE Sort(_, _)
Sort(list, key) ==
  IF Len(list) = 0 THEN <<>>
  ELSE InsertSorted(Sort(SubSeq(list, 1, Len(list) - 1), key),
                    list[Len(list)], key)

\* Math.ceil(n / d) for a length n and a positive d
MathCeilDiv(n, d) == IF n % d = 0 THEN n \div d ELSE (n \div d) + 1

\* Array.prototype.slice(start, end) for 0 <= start
Slice(list, start, end) ==
  SubSeq(list, start + 1, IF end < Len(list) THEN end ELSE Len(list))

TotalPagesRoundedDown(sorted) == (Len(sorted) \div itemsPerPage) + 1

TotalPages(sorted) == MathCeilDiv(Len(sorted), itemsPerPage)

PaginateFromNextIndex(sorted, page) ==
  Slice(sorted, (page - 1) * itemsPerPage + 1, page * itemsPerPage)

Paginate(sorted, page) ==
  Slice(sorted, (page - 1) * itemsPerPage, page * itemsPerPage)

\* the comparator of the sort runs while the component function is still at
\* the sort, before it reaches  const calculateProgress = ... ; reading the
\* constant there throws (a ReferenceError, or a TypeError where the build
\* turns const into var).  sort calls the comparator once the array holds two
\* elements, and only the "progress" case reads the constant.
ComparatorThrows(filtered, key) == key = "progress" /\ Len(filtered) >= 2

\* a render that threw after the filter: nothing is derived or displayed
Thrown(filtered) ==
  [rendered |-> FALSE, thrown |-> TRUE, filteredProjects |-> filtered,
   sortedProjects |-> <<>>, totalPages |-> 0, paginatedProjects |-> <<>>,
   cards |-> <<>>]

\* what one render of ProjectsDisplay derives from its props and state
Render(list, term, filter, key, page) ==
  LET filtered == Filter(list, term, filter)
      sorted == Sort(filtered, key)
      paginated == Paginate(sorted, page)
  IN IF ComparatorThrows(filtered, key) THEN Thrown(filtered)
     ELSE [rendered |-> TRUE,
           thrown |-> FALSE,
           filteredProjects |-> filtered,
           sortedProjects |-> sorted,
           totalPages |-> TotalPages(sorted),
           paginatedProjects |-> paginated,
           cards |-> [i \in 1..Len(paginated) |->
                        [projectId |-> paginated[i].projectId,
                         progress |-> calculateProgress(paginated[i]),
                         priority |-> getPriority(paginated[i])]]]

NotRendered ==
  [rendered |-> FALSE, thrown |-> FALSE, filteredProjects |-> <<>>,
   sortedProjects |-> <<>>, totalPages |-> 0, paginatedProjects |-> <<>>,
   cards |-> <<>>]

(***************************************************************************)
(* The project records the specifications draw their lists from.           *)
(***************************************************************************)
Project(name, address, client, status, capacity, start, tasks, done) ==
  [projectId |-> 0, projectName |-> name, address |-> address,
   clientInfo |-> client, status |-> status, totalCapacityKw |-> capacity,
   startDate |-> start, taskCount |-> tasks, completedTaskCount |-> done]

Pool ==
  << Project(Some(<<"A","l","p","h","a">>), Some(<<"M","a","i","n">>), NULL,
             Some(Planning), NULL, <<2024, 1, 10>>, 0, 0),
     Project(Some(<<"B","e","t","a">>), NULL, Some(<<"A","c","m","e">>),
             Some(InProgress), Some(50), <<2024, 3, 1>>, 10, 3),
     Project(Some(<<"a","l","p","h","a">>), Some(<<"m","a","i","n">>),
             Some(<<"B","e","s","t">>), Some(InProgress), Some(0),
             <<2024, 1, 10>>, 10, 2),
     Project(NULL, NULL, NULL, NULL, Some(50), <<2023, 12, 31>>, 0, 0),
     Project(Some(<<"G","a","m","m","a">>), Some(<<"B","e","t","a">>), NULL,
             Some(OnHold), Some(120), <<2024, 2, 29>>, 7, 4),
     Project(Some(<<"D","e","l","t","a">>), NULL, Some(<<"a","l","p","h","a">>),
             Some(Completed), NULL, <<2024, 3, 1>>, 40, 23),
     Project(Some(<<"b","e","t","a">>), Some(EmptyString), Some(<<"A","C","M","E">>),
             Some(Planning), Some(7), <<2025, 1, 1>>, 10, 10),
     Project(Some(<<"A","l","p","h","a">>), Some(<<"Z","e","t","a">>), NULL,
             Some(Cancelled), Some(120), <<2024, 2, 28>>, 8, 1) >>

\* projectId is the place of a record in the list the data source returns
WithIds(list) == [i \in 1..Len(list) |-> [list[i] EXCEPT !.projectId = i]]

\* a list of n records that cycles through the pool from a given offset
ProjectList(n, offset) ==
  WithIds([i \in 1..n |-> Pool[((i + offset - 1) % Len(Pool)) + 1]])

\* every list of at most MaxLen pool records
RECURSIVE PoolLists(_)
PoolLists(n) ==
  IF n = 0 THEN {<<>>}
  ELSE LET shorter == PoolLists(n - 1)
       IN shorter \cup {Append(l, Pool[i]) : l \in shorter, i \in 1..Len(Pool)}

SmallLists == {WithIds(l) : l \in PoolLists(MaxLen)}

LongLists == {ProjectList(n, o) : n \in 0..MaxProjects, o \in 0..(Len(Pool) - 1)}

\* the lists the data source delivers to the mounted list view
RefreshSizes == {0, 1, itemsPerPage + 1, MaxProjects}
ProjectLists == {ProjectList(n, 0) : n \in RefreshSizes}

\* the search terms of the exhaustive specifications
SearchTerms == {EmptyString, <<"A","L">>, <<"b","e","t","a">>, <<"z","z">>}

\* what the user types into the search box of the mounted list view
TypedTerms == {EmptyString, <<"A","L">>, <<"z","z">>}

\* the status filters of the exhaustive specifications: the option values,
\* and one that differs from a status in case only
StatusFilters ==
  {AllStatuses, Planning, InProgress, Completed, OnHold, Cancelled,
   toLowerCase(Planning)}

(***************************************************************************)
(* Navigation: the role-gated tab tables of Sidebar and ProjectManagement. *)
(***************************************************************************)
\* Sidebar: navigationItems, roles missing on the unrestricted items
navigationItems ==
  << [id |-> "overview", roles |-> NULL],
     [id |-> "projects", roles |-> NULL],
     [id |-> "construction", roles |-> NULL],
     [id |-> "planning", roles |-> NULL],
     [id |-> "reports", roles |-> NULL],
     [id |-> "analytics", roles |-> Some({"Admin", "Manager"})] >>

\* ProjectManagement: tabs
tabs ==
  << [id |-> "overview", requiredRole |-> NULL],
     [id |-> "projects", requiredRole |-> NULL],
     [id |-> "construction", requiredRole |-> NULL],
     [id |-> "planning", requiredRole |-> NULL],
     [id |-> "reports", requiredRole |-> NULL],
     [id |-> "analytics", requiredRole |-> Some({"Admin", "Manager"})] >>

\* a string is truthy unless it is empty; null is falsy
Truthy(role) == ~IsNull(role) /\ Val(role) # ""

\* AppShell hands Sidebar  roleName || undefined
SidebarRole(role) == IF Truthy(role) THEN role ELSE NULL

filteredItemsAnyRole(role) ==
  SelectSeq(navigationItems, LAMBDA item : IsNull(item.roles) \/ Truthy(role))

\* Sidebar: !item.roles || (roleName && item.roles.includes(roleName))
filteredItems(role) ==
  SelectSeq(navigationItems, LAMBDA item :
    IsNull(item.roles) \/ (Truthy(role) /\ Val(role) \in Val(item.roles)))

\* the tabs without the role filter
availableTabsUnfiltered(role) == tabs

\* ProjectManagement: tab.requiredRole.includes(roleName || "")
availableTabs(role) ==
  SelectSeq(tabs, LAMBDA tab :
    IF IsNull(tab.requiredRole) THEN TRUE
    ELSE (IF Truthy(role) THEN Val(role) ELSE "") \in Val(tab.requiredRole))

Ids(items) == [i \in 1..Len(items) |-> items[i].id]

\* what one render of the shell offers for navigation
RenderNav(role) ==
  [filteredItems |-> Ids(filteredItems(SidebarRole(role))),
   availableTabs |-> Ids(availableTabs(role))]

\* ProjectManagement: renderTabContent, the switch on activeTab
renderTabContent(tab) ==
  IF tab \in {"overview", "projects", "construction", "planning", "reports",
              "analytics"}
  THEN tab ELSE "Tab not found"

\* ProjectManagement: the children of AppShell, the spinner while loading
\* and otherwise  !loading && renderTabContent()
TabContent(isLoading, tab) == IF isLoading THEN "loading" ELSE renderTabContent(tab)

\* the role names useRole may report
Roles == {NULL, Some(""), Some("Admin"), Some("Manager"), Some("User"),
          Some("admin")}

\* AppShell: the viewport is mobile below this width
Breakpoint == 1024
Widths == {Breakpoint - 1, Breakpoint, Breakpoint + 1}

(***************************************************************************)
(* State.                                                                  *)
(***************************************************************************)
VARIABLES
  projects,      \* ProjectsDisplay: the projects prop
  searchTerm,    \* ProjectsDisplay state
  statusFilter,  \* ProjectsDisplay state
  sortBy,        \* ProjectsDisplay state
  viewMode,      \* ProjectsDisplay state
  currentPage,   \* ProjectsDisplay state
  view,          \* what the last render of ProjectsDisplay derived
  lastEvent,     \* history: the last event the list view handled
  roleName,      \* useRole().roleName
  activeTab,     \* ProjectManagement state
  sidebarOpen,   \* AppShell state
  isMobile,      \* AppShell state
  innerWidth,    \* window.innerWidth
  nav,           \* what the last render of the shell offers for navigation
  loading,       \* useProjects().loading
  error,         \* useProjects().error
  inFlight,      \* project-list fetches that have not resolved yet
  issued,        \* history: how many project-list fetches have been issued
  showCreateModal,      \* ProjectManagement state
  panel,                \* which branch ProjectsDisplay renders, if mounted
  activeProjectsCount,  \* OverviewTab state
  pending,       \* active-count queries that have not resolved yet
  queries,       \* history: how many active-count queries have been issued
  settled,       \* history: the active-count query that resolved last
  latestOutcome, \* history: what the newest active-count query resolved to
  overview,      \* what the last render of OverviewTab shows
  now,           \* the clock: new Date()
  messages,      \* the completion messages of the rendered cards
  selectedProject,  \* ProjectsDisplay state
  route          \* the location of the router, once the list view navigated

listVars == <<projects, searchTerm, statusFilter, sortBy, viewMode, currentPage,
              view, lastEvent>>
listState == <<projects, searchTerm, statusFilter, sortBy, viewMode, currentPage,
               view>>
navVars == <<roleName, activeTab, sidebarOpen, isMobile, innerWidth, nav>>
fetchVars == <<loading, error, inFlight, issued, showCreateModal, panel>>
countVars == <<activeProjectsCount, pending, queries, settled, latestOutcome>>
cardVars == <<overview, now, messages>>
detailVars == <<selectedProject, route>>
vars == <<projects, searchTerm, statusFilter, sortBy, viewMode, currentPage,
          view, lastEvent, roleName, activeTab, sidebarOpen, isMobile, innerWidth, nav,
          loading, error, inFlight, issued, showCreateModal, panel,
          activeProjectsCount, pending, queries, settled, latestOutcome,
          overview, now, messages, selectedProject, route>>

(***************************************************************************)
(* ProjectsDisplay: initial state and event handlers.  Every handler is    *)
(* followed by the render it causes and by the page-reset effect of that   *)
(* render, which runs before the next event is handled.                    *)
(***************************************************************************)
\* the event a state results from: its kind, and whether the page-reset
\* effect that followed it changed the page
Event(kind, reset) == [kind |-> kind, reset |-> reset]
Mounted == Event("mount", FALSE)

\* useState initial values
ListInit ==
  /\ searchTerm = EmptyString
  /\ statusFilter = AllStatuses
  /\ sortBy = "name"
  /\ viewMode = "grid"
  /\ currentPage = 1
  /\ lastEvent = Mounted

\* the shell as it stands while the list view is exercised
NavIdle ==
  /\ roleName = NULL
  /\ activeTab = "overview"
  /\ sidebarOpen = TRUE
  /\ isMobile = FALSE
  /\ innerWidth = Breakpoint
  /\ nav = RenderNav(NULL)

\* the list view as it stands while the shell is exercised
ListIdle ==
  /\ projects = <<>>
  /\ ListInit
  /\ view = NotRendered

\* no active-count query has been issued or has resolved
NoneSettled == [length |-> 0, latest |-> FALSE, live |-> FALSE, failed |-> FALSE,
                totalCount |-> 0, written |-> NULL]

\* the data source as it stands while the list is loaded and no fetch runs
FetchIdle ==
  /\ loading = FALSE
  /\ error = NULL
  /\ inFlight = 0
  /\ issued = 0
  /\ showCreateModal = FALSE

\* the overview tab as it stands while it is not mounted
CountIdle ==
  /\ activeProjectsCount = 0
  /\ pending = <<>>
  /\ queries = 0
  /\ settled = NoneSettled
  /\ latestOutcome = NULL

\* useState<ProjectDto | null>(null), and no navigation yet
DetailIdle ==
  /\ selectedProject = NULL
  /\ route = NULL

\* no overview and no completion message has been rendered
CardIdle ==
  /\ overview = [rendered |-> FALSE]
  /\ now = <<1970, 1, 1, 0>>
  /\ messages = <<>>

\* React.useEffect(() => setCurrentPage(1), [searchTerm, statusFilter, viewMode]):
\* the page after the effect of a render whose dependencies went from old to new
ResetPaginationWithoutViewMode(old, new, page) ==
  IF old[1] # new[1] \/ old[2] # new[2] THEN 1 ELSE page

ResetPagination(old, new, page) == IF old # new THEN 1 ELSE page

\* a state update of the mounted view: the render with the new state, then
\* the effect and the render that follows it.  A render that throws commits
\* nothing: React discards the update and unmounts the view, which handles no
\* further event.
Commit(kind, list, term, filter, key, mode, page) ==
  LET after == ResetPagination(<<searchTerm, statusFilter, viewMode>>,
                               <<term, filter, mode>>, page)
      filtered == Filter(list, term, filter)
  IN /\ view.rendered
     /\ IF ComparatorThrows(filtered, key)
          THEN /\ lastEvent' = Event(kind, FALSE)
               /\ view' = Thrown(filtered)
               /\ UNCHANGED <<projects, searchTerm, statusFilter, sortBy,
                              viewMode, currentPage>>
          ELSE /\ lastEvent' = Event(kind, after # page)
               /\ projects' = list
               /\ searchTerm' = term
               /\ statusFilter' = filter
               /\ sortBy' = key
               /\ viewMode' = mode
               /\ currentPage' = after
               /\ view' = Render(list, term, filter, key, after)
     /\ UNCHANGED navVars
     /\ UNCHANGED <<fetchVars, countVars, cardVars, detailVars>>

\* onChange of the search box, and its clear button; like every onChange
\* below it fires when the value differs from the one shown
SetSearchTerm(term) ==
  /\ term # searchTerm
  /\ Commit("search", projects, term, statusFilter, sortBy, viewMode, currentPage)

\* the options of the status select: "all" and the statuses of the projects
uniqueStatuses ==
  {Val(projects[i].status) : i \in {j \in 1..Len(projects) : ~IsNull(projects[j].status)}}

SetStatusFilter(filter) ==
  /\ filter \in {AllStatuses} \cup uniqueStatuses
  /\ filter # statusFilter
  /\ Commit("status", projects, searchTerm, filter, sortBy, viewMode, currentPage)

SetSortBy(key) ==
  /\ key # sortBy
  /\ Commit("sort", projects, searchTerm, statusFilter, key, viewMode, currentPage)

SetViewMode(mode) ==
  /\ mode # viewMode
  /\ Commit("view", projects, searchTerm, statusFilter, sortBy, mode, currentPage)

\* the pagination controls are rendered when more than one page of records matches
PaginationShown == Len(view.sortedProjects) > itemsPerPage

Max(a, b) == IF a > b THEN a ELSE b
Min(a, b) == IF a < b THEN a ELSE b

\* Previous: setCurrentPage(prev => Math.max(prev - 1, 1)); a click on the
\* button while it is disabled (page 1) is not delivered
PreviousPage ==
  /\ PaginationShown
  /\ Commit("previous", projects, searchTerm, statusFilter, sortBy, viewMode,
            IF currentPage = 1 THEN currentPage ELSE Max(currentPage - 1, 1))

\* Next: setCurrentPage(prev => Math.min(prev + 1, totalPages)); a click on
\* the button while it is disabled (the last page) is not delivered
NextPageUnclamped ==
  /\ PaginationShown
  /\ Commit("next", projects, searchTerm, statusFilter, sortBy, viewMode,
            currentPage + 1)

NextPage ==
  /\ PaginationShown
  /\ Commit("next", projects, searchTerm, statusFilter, sortBy, viewMode,
            IF currentPage = view.totalPages THEN currentPage
            ELSE Min(currentPage + 1, view.totalPages))

\* the numbered buttons 1..totalPages
GoToPage(n) ==
  /\ PaginationShown
  /\ n \in 1..view.totalPages
  /\ Commit("page", projects, searchTerm, statusFilter, sortBy, viewMode, n)

\* the empty state offers "Clear all filters" when no record is shown and a
\* search term or a status filter is set
ClearFiltersOffered(v, term, filter) ==
  /\ v.rendered
  /\ Len(v.sortedProjects) = 0
  /\ (term # EmptyString \/ filter # AllStatuses)

\* Clear all filters: setSearchTerm(""); setStatusFilter("all"), one render
ClearFilters ==
  /\ ClearFiltersOffered(view, searchTerm, statusFilter)
  /\ Commit("clear", projects, EmptyString, AllStatuses, sortBy, viewMode,
            currentPage)

\* the Project Details Modal is rendered under  selectedProject && ...
DetailsModalShown(selected) == ~IsNull(selected)

\* a click on a project that opens the details modal instead
ClickProjectOpeningDetails(i) ==
  /\ view.rendered
  /\ i \in 1..Len(view.paginatedProjects)
  /\ lastEvent' = Event("open", FALSE)
  /\ selectedProject' = Some(view.paginatedProjects[i])
  /\ UNCHANGED <<route, projects, searchTerm, statusFilter, sortBy, viewMode,
                 currentPage, view>>
  /\ UNCHANGED navVars
  /\ UNCHANGED <<fetchVars, countVars, cardVars>>

\* a click on the name or the View button of a card or row:
\* navigate(`/projects/${project.projectId}`); the router leaves the list view
ClickProject(i) ==
  /\ view.rendered
  /\ i \in 1..Len(view.paginatedProjects)
  /\ lastEvent' = Event("open", FALSE)
  /\ route' = Some(<<"projects", view.paginatedProjects[i].projectId>>)
  /\ view' = NotRendered
  /\ UNCHANGED <<selectedProject, projects, searchTerm, statusFilter, sortBy,
                 viewMode, currentPage>>
  /\ UNCHANGED navVars
  /\ UNCHANGED <<fetchVars, countVars, cardVars>>

\* the parent hands down a new projects prop
Refresh(list) ==
  /\ list # projects
  /\ Commit("refresh", list, searchTerm, statusFilter, sortBy, viewMode, currentPage)

Init ==
  /\ projects \in ProjectLists
  /\ ListInit
  /\ view = Render(projects, searchTerm, statusFilter, sortBy, currentPage)
  /\ NavIdle
  /\ FetchIdle /\ panel = "list"
  /\ CountIdle
  /\ CardIdle
  /\ DetailIdle

Next ==
  \/ \E term \in TypedTerms : SetSearchTerm(term)
  \/ \E filter \in StatusFilters : SetStatusFilter(filter)
  \/ \E key \in SortKeys : SetSortBy(key)
  \/ \E mode \in ViewModes : SetViewMode(mode)
  \/ PreviousPage
  \/ NextPage
  \/ \E n \in 1..(MaxProjects \div itemsPerPage + 1) : GoToPage(n)
  \/ \E list \in ProjectLists : Refresh(list)
  \/ ClearFilters
  \/ \E i \in 1..itemsPerPage : ClickProject(i)

Spec == Init /\ [][Next]_vars

(***************************************************************************)
(* The derivation pipeline on its own: any list, search term, status       *)
(* filter, sort key and page, rendered once.                               *)
(***************************************************************************)
RenderView ==
  /\ view = NotRendered
  /\ view' = Render(projects, searchTerm, statusFilter, sortBy, currentPage)
  /\ UNCHANGED <<projects, searchTerm, statusFilter, sortBy, viewMode, currentPage,
                 lastEvent>>
  /\ UNCHANGED navVars
  /\ UNCHANGED <<fetchVars, countVars, cardVars, detailVars>>

\* the lists the filter is exercised on: the small ones, and runs of the pool
\* long enough for one record to pass both predicates while each predicate
\* alone drops another
FilterLists ==
  SmallLists \cup {ProjectList(MaxLen + 1, o) : o \in 0..(Len(Pool) - 1)}

InitFilter ==
  /\ projects \in FilterLists
  /\ searchTerm \in SearchTerms
  /\ statusFilter \in StatusFilters
  /\ sortBy = "name"
  /\ currentPage = 1

InitSort ==
  /\ projects \in SmallLists \cup LongLists
  /\ searchTerm = EmptyString
  /\ statusFilter = AllStatuses
  /\ sortBy \in SortKeys
  /\ currentPage = 1

InitPaginate ==
  /\ projects \in LongLists
  /\ searchTerm = EmptyString
  /\ statusFilter = AllStatuses
  /\ sortBy = "name"
  /\ currentPage \in 1..(MaxProjects \div itemsPerPage + 1)

InitPipeline ==
  /\ InitFilter \/ InitSort \/ InitPaginate
  /\ viewMode = "grid"
  /\ lastEvent = Mounted
  /\ view = NotRendered
  /\ NavIdle
  /\ FetchIdle /\ panel = "list"
  /\ CountIdle
  /\ CardIdle
  /\ DetailIdle

SpecPipeline == InitPipeline /\ [][RenderView]_vars

(***************************************************************************)
(* One project card on its own: any status and any task counts.            *)
(***************************************************************************)
CardStatuses ==
  {NULL, Some(Planning), Some(InProgress), Some(Completed), Some(OnHold),
   Some(Cancelled)}

\* completedTaskCount never exceeds taskCount, except that a record without
\* tasks may carry any count
CardRecords ==
  {[Pool[1] EXCEPT !.projectId = 1, !.status = s, !.taskCount = t,
                   !.completedTaskCount = c] :
     s \in CardStatuses,
     t \in 0..MaxTasks,
     c \in 0..MaxTasks} 

InitCard ==
  /\ \E r \in CardRecords :
       /\ r.taskCount # 0 => r.completedTaskCount <= r.taskCount
       /\ projects = <<r>>
  /\ ListInit
  /\ view = NotRendered
  /\ NavIdle
  /\ FetchIdle /\ panel = "list"
  /\ CountIdle
  /\ CardIdle
  /\ DetailIdle

SpecCard == InitCard /\ [][RenderView]_vars

(***************************************************************************)
(* The shell: role changes, tab clicks, resizes and sidebar toggles.       *)
(***************************************************************************)
\* the auth context reports another role; the shell renders again
SetRole(role) ==
  /\ roleName' = role
  /\ nav' = RenderNav(role)
  /\ UNCHANGED <<activeTab, sidebarOpen, isMobile, innerWidth>>
  /\ lastEvent' = Event("role", FALSE)
  /\ UNCHANGED listState
  /\ UNCHANGED <<fetchVars, countVars, cardVars, detailVars>>

\* Sidebar: onClick={() => onTabChange(item.id)} on an item it renders
TabClick(id) ==
  /\ \E i \in 1..Len(nav.filteredItems) : nav.filteredItems[i] = id
  /\ activeTab' = id
  /\ UNCHANGED <<roleName, sidebarOpen, isMobile, innerWidth, nav>>
  /\ lastEvent' = Event("tab", FALSE)
  /\ UNCHANGED listState
  /\ UNCHANGED <<fetchVars, countVars, cardVars, detailVars>>

\* handleResize that closes the sidebar on a narrow viewport and leaves it
\* alone on a wide one
ResizeClosingOnly(width) ==
  /\ innerWidth' = width
  /\ isMobile' = (width < Breakpoint)
  /\ sidebarOpen' = (sidebarOpen /\ ~(width < Breakpoint))
  /\ UNCHANGED <<roleName, activeTab, nav>>
  /\ lastEvent' = Event("resize", FALSE)
  /\ UNCHANGED listState
  /\ UNCHANGED <<fetchVars, countVars, cardVars, detailVars>>

\* AppShell: handleResize
Resize(width) ==
  /\ innerWidth' = width
  /\ isMobile' = (width < Breakpoint)
  /\ sidebarOpen' = ~(width < Breakpoint)
  /\ UNCHANGED <<roleName, activeTab, nav>>
  /\ lastEvent' = Event("resize", FALSE)
  /\ UNCHANGED listState
  /\ UNCHANGED <<fetchVars, countVars, cardVars, detailVars>>

\* AppShell: toggleSidebar
ToggleSidebar ==
  /\ sidebarOpen' = ~sidebarOpen
  /\ UNCHANGED <<roleName, activeTab, isMobile, innerWidth, nav>>
  /\ lastEvent' = Event("toggle", FALSE)
  /\ UNCHANGED listState
  /\ UNCHANGED <<fetchVars, countVars, cardVars, detailVars>>

\* AppShell: the mobile overlay, rendered when isMobile && sidebarOpen
OverlayClick ==
  /\ isMobile /\ sidebarOpen
  /\ sidebarOpen' = FALSE
  /\ UNCHANGED <<roleName, activeTab, isMobile, innerWidth, nav>>
  /\ lastEvent' = Event("overlay", FALSE)
  /\ UNCHANGED listState
  /\ UNCHANGED <<fetchVars, countVars, cardVars, detailVars>>

\* the shell after its mount effect has measured the viewport
InitNav ==
  /\ roleName \in Roles
  /\ activeTab = "overview"
  /\ innerWidth \in Widths
  /\ isMobile = (innerWidth < Breakpoint)
  /\ sidebarOpen = ~(innerWidth < Breakpoint)
  /\ nav = RenderNav(roleName)
  /\ ListIdle
  /\ FetchIdle /\ panel = "none"
  /\ CountIdle
  /\ CardIdle
  /\ DetailIdle

TabIds == {tabs[i].id : i \in 1..Len(tabs)}

NextNav ==
  \/ \E role \in Roles : SetRole(role)
  \/ \E id \in TabIds : TabClick(id)
  \/ \E width \in Widths : Resize(width)
  \/ ToggleSidebar
  \/ OverlayClick

SpecNav == InitNav /\ [][NextNav]_vars

(***************************************************************************)
(* ProjectManagement with its data source: the project-list fetch of       *)
(* useProjects, the loading and error branches of ProjectsDisplay, the     *)
(* Create Project modal, and the active-count query of OverviewTab.        *)
(***************************************************************************)
\* the lists the data source delivers here: an empty one, two different ones
\* of one record, and one of MaxLoaded records
FetchLists == {ProjectList(n, 0) : n \in {0, 1, MaxLoaded}} \cup {ProjectList(1, 1)}

\* the messages of a failed project-list fetch
ErrorMessages == {"Network Error"}

\* response.totalCount of the active-count query: no active project, or more
\* than the loaded list holds
TotalCounts == {0, MaxLoaded + 1}

\* the tabs the user moves between here
FetchTabs == {"overview", "projects"}

\* useRole: isAdmin || isManager
isAdminOrManager(role) == role \in {Some("Admin"), Some("Manager")}

\* ProjectsDisplay: if (loading) ... if (error) ... else the list
ListPanelIgnoringError(isLoading, err) == IF isLoading THEN "loading" ELSE "list"

ListPanel(isLoading, err) ==
  IF isLoading THEN "loading" ELSE IF Truthy(err) THEN "error" ELSE "list"

\* ProjectManagement: {!loading && renderTabContent()}
TabMounted(isLoading, tab, id) == ~isLoading /\ tab = id

\* an active-count query in flight: the projects.length its closure holds,
\* whether it is the newest query, and whether the OverviewTab that issued
\* it is still mounted
Query(length) == [length |-> length, latest |-> TRUE, live |-> TRUE]

Superseded(qs) == [i \in 1..Len(qs) |-> [qs[i] EXCEPT !.latest = FALSE]]
Orphaned(qs) == [i \in 1..Len(qs) |-> [qs[i] EXCEPT !.live = FALSE]]

\* OverviewTab: useEffect(() => { fetchCount() }, [projects.length]) runs on
\* mount and after a render in which projects.length differs
CountEffectRunsOnMountOnly(wasMounted, isMounted, oldLength, newLength) ==
  isMounted /\ ~wasMounted

CountEffectRuns(wasMounted, isMounted, oldLength, newLength) ==
  isMounted /\ (~wasMounted \/ newLength # oldLength)

\* a render of ProjectManagement after its state or the state of useProjects
\* changed: the tab content that is mounted, and the effects that follow
Rendered(kind, list, isLoading, err, tab) ==
  LET wasMounted == TabMounted(loading, activeTab, "overview")
      isMounted == TabMounted(isLoading, tab, "overview")
      runs == CountEffectRuns(wasMounted, isMounted, Len(projects), Len(list))
      kept == IF wasMounted /\ ~isMounted THEN Orphaned(pending) ELSE pending
      shown == IF TabMounted(isLoading, tab, "projects")
               THEN ListPanel(isLoading, err) ELSE "none"
  IN /\ runs => queries < MaxQueries
     /\ lastEvent' = Event(kind, FALSE)
     /\ projects' = list
     /\ loading' = isLoading
     /\ error' = err
     /\ activeTab' = tab
     /\ panel' = shown
     /\ view' = IF shown = "list"
                THEN Render(list, searchTerm, statusFilter, sortBy, currentPage)
                ELSE NotRendered
     /\ pending' = IF runs THEN Append(Superseded(kept), Query(Len(list))) ELSE kept
     /\ queries' = IF runs THEN queries + 1 ELSE queries
     /\ latestOutcome' = IF runs THEN NULL ELSE latestOutcome
     /\ activeProjectsCount' = IF isMounted /\ wasMounted THEN activeProjectsCount ELSE 0
     /\ UNCHANGED <<searchTerm, statusFilter, sortBy, viewMode, currentPage>>
     /\ UNCHANGED <<roleName, sidebarOpen, isMobile, innerWidth, nav>>
     /\ UNCHANGED <<settled, cardVars, detailVars>>

\* useProjects: refreshProjects() issues a fetch; the hook may or may not
\* report loading while the fetch runs
refreshProjects(kind, busy) ==
  /\ issued < MaxFetches
  /\ issued' = issued + 1
  /\ inFlight' = inFlight + 1
  /\ Rendered(kind, projects, loading \/ busy, error, activeTab)

\* ProjectsDisplay: the Try Again button of the error panel
TryAgain(busy) ==
  /\ panel = "error"
  /\ refreshProjects("tryAgain", busy)
  /\ UNCHANGED showCreateModal

\* ProjectsDisplay: the refresh button of the list header
RefreshClick(busy) ==
  /\ panel = "list"
  /\ refreshProjects("refresh", busy)
  /\ UNCHANGED showCreateModal

\* the create-project controls with the role test left out
CreateControlsForAnyRole(role, shown, v, term, filter) ==
  IF shown = "list" /\ v.rendered
  THEN {"New Project"}
         \cup (IF Len(v.sortedProjects) = 0 /\ term = EmptyString
                   /\ filter = AllStatuses
                THEN {"Create new project"} ELSE {})
  ELSE {}

\* ProjectsDisplay: the create-project controls a render of the list offers,
\* the New Project button of the header and the Create new project button
\* of the empty state; onCreateProject is always handed down
CreateControls(role, shown, v, term, filter) ==
  IF shown = "list" /\ v.rendered /\ isAdminOrManager(role)
  THEN {"New Project"}
         \cup (IF Len(v.sortedProjects) = 0 /\ term = EmptyString
                   /\ filter = AllStatuses
                THEN {"Create new project"} ELSE {})
  ELSE {}

\* a click on a create-project control; ProjectManagement: handleCreateProject
handleCreateProject ==
  /\ CreateControls(roleName, panel, view, searchTerm, statusFilter) # {}
  /\ ~showCreateModal
  /\ showCreateModal' = TRUE
  /\ Rendered("newProject", projects, loading, error, activeTab)
  /\ UNCHANGED <<inFlight, issued>>

\* the Cancel button of the Create Project modal
CancelCreate ==
  /\ showCreateModal
  /\ showCreateModal' = FALSE
  /\ Rendered("cancel", projects, loading, error, activeTab)
  /\ UNCHANGED <<inFlight, issued>>

\* the Create Project button of the modal: handleProjectCreated
handleProjectCreated(busy) ==
  /\ showCreateModal
  /\ showCreateModal' = FALSE
  /\ refreshProjects("created", busy)

\* useProjects: a fetch resolves with a list
ListFetchSucceeds(list) ==
  /\ inFlight > 0
  /\ inFlight' = inFlight - 1
  /\ Rendered("loaded", list, FALSE, NULL, activeTab)
  /\ UNCHANGED <<issued, showCreateModal>>

\* useProjects: a fetch fails; the list loaded before stays
ListFetchFails(message) ==
  /\ inFlight > 0
  /\ inFlight' = inFlight - 1
  /\ Rendered("failed", projects, FALSE, Some(message), activeTab)
  /\ UNCHANGED <<issued, showCreateModal>>

\* Sidebar: a click on the overview or the projects item
SwitchTab(id) ==
  /\ id # activeTab
  /\ Rendered("tab", projects, loading, error, id)
  /\ UNCHANGED <<inFlight, issued, showCreateModal>>

\* what is left of a sequence without its i-th element
Without(seq, i) == SubSeq(seq, 1, i - 1) \o SubSeq(seq, i + 1, Len(seq))

\* OverviewTab: the setter takes effect while the tab that issued the query
\* is mounted; React drops the update of an unmounted component
SetActiveProjectsCount(query, value) ==
  IF query.live THEN value ELSE activeProjectsCount

\* a query resolves: the call of the setter with the value written, if the
\* setter is called, the history, and the render that follows
CountSettled(kind, i, failed, total, written) ==
  /\ lastEvent' = Event(kind, FALSE)
  /\ pending' = Without(pending, i)
  /\ settled' = [length |-> pending[i].length, latest |-> pending[i].latest,
                 live |-> pending[i].live, failed |-> failed, totalCount |-> total,
                 written |-> written]
  /\ latestOutcome' =
       IF pending[i].latest
       THEN Some(IF failed THEN pending[i].length ELSE total)
       ELSE latestOutcome
  /\ activeProjectsCount' =
       IF IsNull(written) THEN activeProjectsCount
       ELSE SetActiveProjectsCount(pending[i], Val(written))
  /\ UNCHANGED <<projects, searchTerm, statusFilter, sortBy, viewMode, currentPage,
                 view>>
  /\ UNCHANGED <<navVars, fetchVars, queries, cardVars, detailVars>>

\* fetchCount, try branch: setActiveProjectsCount(response.totalCount)
CountQuerySucceedsIfLatest(i, total) ==
  /\ i \in 1..Len(pending)
  /\ CountSettled("countLoaded", i, FALSE, total,
                  IF pending[i].latest THEN Some(total) ELSE NULL)

CountQuerySucceeds(i, total) ==
  /\ i \in 1..Len(pending)
  /\ CountSettled("countLoaded", i, FALSE, total, Some(total))

\* fetchCount, catch branch: setActiveProjectsCount(projects.length), with the
\* projects of the render whose effect issued the query
CountQueryFailsAndRetries(i) ==
  /\ i \in 1..Len(pending)
  /\ queries < MaxQueries
  /\ lastEvent' = Event("countFailed", FALSE)
  /\ pending' = Append(Without(pending, i), pending[i])
  /\ queries' = queries + 1
  /\ settled' = [length |-> pending[i].length, latest |-> pending[i].latest,
                 live |-> pending[i].live, failed |-> TRUE, totalCount |-> 0,
                 written |-> Some(pending[i].length)]
  /\ latestOutcome' = NULL
  /\ activeProjectsCount' = SetActiveProjectsCount(pending[i], pending[i].length)
  /\ UNCHANGED <<projects, searchTerm, statusFilter, sortBy, viewMode, currentPage,
                 view>>
  /\ UNCHANGED <<navVars, fetchVars, cardVars, detailVars>>

CountQueryFails(i) ==
  /\ i \in 1..Len(pending)
  /\ CountSettled("countFailed", i, TRUE, 0, Some(pending[i].length))

FetchRoles == {Some("Admin"), Some("User")}

\* ProjectManagement mounts: useProjects has issued its first fetch and
\* reports loading
InitFetch ==
  /\ projects = <<>>
  /\ ListInit
  /\ view = NotRendered
  /\ roleName \in FetchRoles
  /\ activeTab = "overview"
  /\ sidebarOpen = TRUE
  /\ isMobile = FALSE
  /\ innerWidth = Breakpoint
  /\ nav = RenderNav(roleName)
  /\ loading = TRUE
  /\ error = NULL
  /\ inFlight = 1
  /\ issued = 1
  /\ showCreateModal = FALSE
  /\ panel = "none"
  /\ CountIdle
  /\ CardIdle
  /\ DetailIdle

NextFetch ==
  \/ \E busy \in BOOLEAN : TryAgain(busy)
  \/ \E busy \in BOOLEAN : RefreshClick(busy)
  \/ handleCreateProject
  \/ CancelCreate
  \/ \E busy \in BOOLEAN : handleProjectCreated(busy)
  \/ \E list \in FetchLists : ListFetchSucceeds(list)
  \/ \E message \in ErrorMessages : ListFetchFails(message)
  \/ \E id \in FetchTabs : SwitchTab(id)
  \/ \E i \in 1..MaxQueries, total \in TotalCounts : CountQuerySucceeds(i, total)
  \/ \E i \in 1..MaxQueries : CountQueryFails(i)

SpecFetch == InitFetch /\ [][NextFetch]_vars

(***************************************************************************)
(* KPI aggregation: projectStats of ProjectManagement and the derived      *)
(* metrics and the project table of OverviewTab.                           *)
(***************************************************************************)
\* the double 0, and the result of 0 / 0
ZeroDouble == [k |-> 0, limbs |-> <<0, 0, 0, 0, 0>>]
NaN == [k |-> 0, limbs |-> <<>>]

\* the least j with s < t * 2^(j+1)
RECURSIVE ShiftBelowTwo(_, _)
ShiftBelowTwo(s, t) == IF s < 2 * t THEN 0 ELSE 1 + ShiftBelowTwo(s, 2 * t)

\* s / t in binary64 for integers s >= 0 and t >= 0; a quotient of 2 or more
\* has a negative shift; a positive number over 0 is not needed here
DoubleQuotient(s, t) ==
  IF t = 0 THEN NaN
  ELSE IF s = 0 THEN ZeroDouble
  ELSE IF s <= t THEN DoubleDivide(s, t)
  ELSE LET j == ShiftBelowTwo(s, t)
       IN [k |-> 0 - j, limbs |-> DoubleDivide(s, t * Pow2(j)).limbs]

\* x * 100 in binary64
DoublePercent(x) == IF x = NaN THEN NaN ELSE DoubleTimes100(x)

\* Number.prototype.toFixed(1): the integer n for which n / 10 is nearest to
\* the exact value of x, the larger one of two; "NaN" for NaN.  The result
\* is the number of tenths shown.
toFixed1(x) ==
  IF x = NaN THEN [defined |-> FALSE, tenths |-> 0]
  ELSE LET p == CarryLimbs([i \in 1..5 |-> 10 * x.limbs[i]])
           j == 0 - x.k
       IN [defined |-> TRUE,
           tenths |->
             IF x.k >= 0 THEN MathRound([k |-> x.k, limbs |-> p])
             ELSE p[1] * Pow2(j) + (p[2] \div Pow2(13 - j))
                    + ((p[2] \div Pow2(12 - j)) % 2)]

\* projects.reduce((sum, p) => sum + (p.field || 0), 0)
RECURSIVE SumOf(_, _)
SumOf(list, field) ==
  IF list = <<>> THEN 0
  ELSE NumberOrZero(list[1][field]) + SumOf(Tail(list), field)

\* ProjectManagement: projectStats; a budget of 0 or less is replaced by 1
projectStatsUnguarded(list) ==
  [totalProjects |-> Len(list),
   totalBudget |-> SumOf(list, "revenueValue"),
   totalSpent |-> SumOf(list, "ftsValue"),
   totalCapacity |-> SumOf(list, "totalCapacityKw"),
   budgetUtilization |->
     DoublePercent(DoubleQuotient(SumOf(list, "ftsValue"),
                                  SumOf(list, "revenueValue")))]

projectStats(list) ==
  [totalProjects |-> Len(list),
   totalBudget |-> SumOf(list, "revenueValue"),
   totalSpent |-> SumOf(list, "ftsValue"),
   totalCapacity |-> SumOf(list, "totalCapacityKw"),
   budgetUtilization |->
     IF Len(list) > 0
     THEN DoublePercent(DoubleQuotient(SumOf(list, "ftsValue"),
                                       Max(SumOf(list, "revenueValue"), 1)))
     ELSE ZeroDouble]

\* OverviewTab: stats?.field ?? fallback
StatOr(stats, field, fallback) ==
  IF IsNull(stats) THEN fallback ELSE Val(stats)[field]

\* OverviewTab: the derived metrics, the KPI cards and the project table
RenderOverview(list, stats, count) ==
  LET totalBudget == StatOr(stats, "totalBudget", SumOf(list, "revenueValue"))
      totalSpent == StatOr(stats, "totalSpent", SumOf(list, "ftsValue"))
      totalCapacity == StatOr(stats, "totalCapacity", SumOf(list, "totalCapacityKw"))
      budgetUtilization ==
        StatOr(stats, "budgetUtilization",
               IF totalBudget > 0
               THEN DoublePercent(DoubleQuotient(totalSpent, totalBudget))
               ELSE ZeroDouble)
      shown == Slice(list, 0, 5)
  IN [rendered |-> TRUE,
      stats |-> stats,
      totalBudget |-> totalBudget,
      totalSpent |-> totalSpent,
      totalCapacity |-> totalCapacity,
      budgetUtilization |-> budgetUtilization,
      activeProjects |-> count,
      utilizationShown |-> toFixed1(budgetUtilization),
      rows |-> [i \in 1..Len(shown) |-> shown[i].projectId],
      emptyRow |-> (Len(list) = 0)]

\* revenueValue and ftsValue of the pool records, in the order of the pool
Finance ==
  << <<NULL, NULL>>, <<Some(80), Some(23)>>, <<Some(0), Some(7)>>,
     <<Some(40), Some(41)>>, <<NULL, Some(5)>>, <<Some(120), Some(0)>>,
     <<Some(80), NULL>>, <<Some(1), Some(1)>> >>

\* a pool record with its financial fields
WithFinance(r) ==
  LET i == CHOOSE n \in 1..Len(Pool) : Pool[n] = [r EXCEPT !.projectId = 0]
  IN [revenueValue |-> Finance[i][1], ftsValue |-> Finance[i][2]] @@ r

KpiList(list) == [i \in 1..Len(list) |-> WithFinance(list[i])]

\* every list of at most MaxLen records, and two that fill the table
KpiLists ==
  {KpiList(l) : l \in SmallLists} \cup {KpiList(ProjectList(n, 0)) : n \in {5, 6}}

\* ProjectManagement: renderTabContent, case "overview"
RenderOverviewTab ==
  /\ ~overview.rendered
  /\ overview' = RenderOverview(projects, Some(projectStats(projects)),
                                activeProjectsCount)
  /\ UNCHANGED <<now, messages>>
  /\ UNCHANGED <<listVars, navVars, fetchVars, countVars, detailVars>>

InitKpi ==
  /\ projects \in KpiLists
  /\ ListInit
  /\ view = NotRendered
  /\ NavIdle
  /\ FetchIdle /\ panel = "none"
  /\ CountIdle
  /\ CardIdle
  /\ DetailIdle

SpecKpi == InitKpi /\ [][RenderOverviewTab]_vars

(***************************************************************************)
(* ProjectsDisplay: the completion message of a project card.              *)
(***************************************************************************)
\* new Date(s).getTime() of a date-only string, in hours since 1970-01-01
EndTime(date) == 24 * getTime(date)

\* new Date().getTime() of an instant <<year, month, day, hour>>, in hours
NowTime(t) == 24 * getTime(<<t[1], t[2], t[3]>>) + t[4]

\* new Date(s) is an Invalid Date when s names no month of the year
IsValidDate(date) == date[2] \in 1..12 /\ date[3] \in 1..31

\* Math.floor(x / (1000 * 60 * 60 * 24)) with x counted in hours
FloorDays(hours) == hours \div 24

\* getDaysUntilEnd with the quotient rounded toward zero
getDaysUntilEndTruncated(endDate, t) ==
  IF IsNull(endDate) \/ Val(endDate) = EmptyString
    THEN [kind |-> "null", days |-> 0]
  ELSE IF ~IsValidDate(Val(endDate)) THEN [kind |-> "NaN", days |-> 0]
  ELSE LET hours == EndTime(Val(endDate)) - NowTime(t)
       IN [kind |-> "number",
           days |-> IF hours >= 0 THEN hours \div 24 ELSE -((-hours) \div 24)]

\* getDaysUntilEnd: null for a missing or empty end date, NaN for one that
\* is no date, otherwise the floored number of days from t to the end date
getDaysUntilEnd(endDate, t) ==
  IF IsNull(endDate) \/ Val(endDate) = EmptyString
    THEN [kind |-> "null", days |-> 0]
  ELSE IF ~IsValidDate(Val(endDate)) THEN [kind |-> "NaN", days |-> 0]
  ELSE [kind |-> "number",
        days |-> FloorDays(EndTime(Val(endDate)) - NowTime(t))]

\* a message: its leading symbol, its wording, and the number it interpolates
Message(icon, text, n) == [icon |-> icon, text |-> text, n |-> n]

\* getCompletionMessage at the instant t; every comparison with NaN is false
getCompletionMessage(project, t) ==
  LET progress == calculateProgress(project)
      daysUntilEnd == getDaysUntilEnd(project.estimatedEndDate, t)
      d == daysUntilEnd.days
  IN IF progress = 100 THEN Message("check", "Completed", NULL)
     ELSE IF daysUntilEnd.kind = "number" /\ d < 0
       THEN Message("warning", "Overdue", NULL)
     ELSE IF daysUntilEnd.kind = "number" /\ d < 7
       THEN Message("alarm", "Due in N days", Some(d))
     ELSE IF daysUntilEnd.kind = "number" /\ d < 30
       THEN Message("calendar", "Due in N days", Some(d))
     ELSE Message("construction", "N% complete", Some(progress))

\* the estimated end dates of the records: none, the empty string, a string
\* that is no date, and dates before, on and after the instants below
EndDates ==
  {NULL, Some(EmptyString), Some(<<2024, 13, 1>>), Some(<<2023, 12, 31>>),
   Some(<<2024, 3, 1>>), Some(<<2024, 3, 8>>)}

\* the instants the cards are rendered at
Instants ==
  {<<2023, 3, 1, 0>>, <<2024, 1, 31, 0>>, <<2024, 1, 31, 1>>,
   <<2024, 2, 23, 0>>, <<2024, 2, 23, 1>>, <<2024, 2, 29, 5>>,
   <<2024, 3, 1, 0>>, <<2024, 3, 1, 5>>, <<2025, 1, 1, 12>>}

WithEndDate(r, endDate) == [estimatedEndDate |-> endDate] @@ r

\* one card for every pool record and end date
MessageLists == {<<WithEndDate(Pool[i], e)>> : i \in 1..Len(Pool), e \in EndDates}

\* the grid renders the message of every card at the instant t; the clock
\* does not run backwards
RenderMessages(t) ==
  /\ NowTime(t) >= NowTime(now)
  /\ now' = t
  /\ messages' = [i \in 1..Len(projects) |-> getCompletionMessage(projects[i], t)]
  /\ UNCHANGED overview
  /\ UNCHANGED <<listVars, navVars, fetchVars, countVars, detailVars>>

InitMessage ==
  /\ projects \in MessageLists
  /\ ListInit
  /\ view = NotRendered
  /\ NavIdle
  /\ FetchIdle /\ panel = "list"
  /\ CountIdle
  /\ CardIdle
  /\ DetailIdle

NextMessage == \E t \in Instants : RenderMessages(t)

SpecMessage == InitMessage /\ [][NextMessage]_vars

(***************************************************************************)
(* Properties.                                                             *)
(***************************************************************************)
\* the least k with k * d >= n
CeilingOf(n, d) == CHOOSE k \in 0..n : k * d >= n /\ (k = 0 \/ (k - 1) * d < n)

\* 100 * c / t rounded to the nearest integer, a half upward
RoundedPercent(c, t) == (200 * c + t) \div (2 * t)

PageSize == 9

\* C1: after any sequence of search, status, sort, view-mode, pagination and
\* refresh events, every render of the list view sees
\* 1 <= currentPage <= totalPages, where totalPages is the ceiling of the
\* number of matching records over 9.  A render with no matching record has
\* totalPages = 0 and fails the bound at once; the property is stated here for
\* the renders that have at least one matching record, the part of the claim
\* that a slice of the records could satisfy.
C1_PageWithinTotalPages ==
  (view.rendered /\ Len(view.filteredProjects) > 0) =>
    /\ view.totalPages = CeilingOf(Len(view.filteredProjects), PageSize)
    /\ 1 <= currentPage
    /\ currentPage <= view.totalPages

\* C2: a step that changes the search term, the status filter or the view
\* mode ends with the current page at 1, whatever the page was before.
C2_FilterChangeResetsPage ==
  [][(searchTerm' # searchTerm \/ statusFilter' # statusFilter
        \/ viewMode' # viewMode) => currentPage' = 1]_vars

\* a search-term change has just taken the view from a later page to page 1
C2_Witness ==
  /\ lastEvent = Event("search", TRUE)
  /\ currentPage = 1
  /\ view.totalPages > 1

\* t occurs in s: some stretch of s equals t
IsSubstring(t, s) ==
  \E i \in 1..(Len(s) + 1) : \E j \in (i - 1)..Len(s) : SubSeq(s, i, j) = t

FieldText(field) == IF field = NULL THEN EmptyString ELSE toLowerCase(field[1])

ShouldMatch(project, term, filter) ==
  /\ \E field \in {project.projectName, project.address, project.clientInfo} :
       IsSubstring(toLowerCase(term), FieldText(field))
  /\ filter = AllStatuses \/ project.status = Some(filter)

\* C3: the filtered list is the input list restricted, in input order, to the
\* records whose lower-cased name, address or client info contains the
\* lower-cased search term (a missing field being empty) and whose status
\* equals the filter exactly unless the filter is "all".
C3_FilterKeepsExactlyTheMatches ==
  view.rendered =>
    LET kept == {i \in 1..Len(projects) :
                   ShouldMatch(projects[i], searchTerm, statusFilter)}
        nth(k) == CHOOSE i \in kept : Cardinality({j \in kept : j <= i}) = k
    IN /\ Len(view.filteredProjects) = Cardinality(kept)
       /\ \A k \in 1..Cardinality(kept) : view.filteredProjects[k] = projects[nth(k)]

\* an upper-case search term and a status filter have kept one of two records
C3_Witness ==
  /\ view.rendered
  /\ searchTerm = <<"A","L">>
  /\ statusFilter = Planning
  /\ Len(projects) = 2
  /\ Len(view.filteredProjects) = 1

\* progress as the specification defines it
SpecifiedProgress(project) ==
  IF project.taskCount = 0 THEN 0
  ELSE RoundedPercent(project.completedTaskCount, project.taskCount)

\* a may stand before b in a list ordered by the key
InKeyOrder(a, b, key) ==
  CASE key = "name" ->
         localeCompare(StringOrEmpty(a.projectName), StringOrEmpty(b.projectName)) <= 0
    [] key = "status" ->
         localeCompare(StringOrEmpty(a.status), StringOrEmpty(b.status)) <= 0
    [] key = "capacity" ->
         NumberOrZero(a.totalCapacityKw) >= NumberOrZero(b.totalCapacityKw)
    [] key = "startDate" -> LexCompare(a.startDate, b.startDate) <= 0
    [] key = "progress" -> SpecifiedProgress(a) >= SpecifiedProgress(b)

\* C4: the sorted list is a permutation of the filtered list, ordered by the
\* sort key (name, status and startDate ascending; capacity, missing as 0,
\* and progress descending), records equal on the key keeping their input
\* order.  A sort that throws yields no sorted list.
C4_SortedByKeyAndStable ==
  /\ ~view.thrown
  /\ view.rendered =>
    LET f == view.filteredProjects
        s == view.sortedProjects
    IN /\ Len(s) = Len(f)
       /\ \A i \in 1..Len(f) : \E j \in 1..Len(s) : s[j] = f[i]
       /\ \A i \in 1..Len(s) : \A j \in (i + 1)..Len(s) :
            /\ InKeyOrder(s[i], s[j], sortBy)
            /\ InKeyOrder(s[j], s[i], sortBy) => s[i].projectId < s[j].projectId

\* C5: every page 1..totalPages holds at most 9 records, the page lengths add
\* up to the number of matching records, and every matching record is on
\* exactly one page; the rendered page is the page of currentPage.
C5_PagesPartitionTheMatches ==
  view.rendered =>
    LET s == view.sortedProjects
        pages == [p \in 1..view.totalPages |-> Paginate(s, p)]
        places == {<<p, k>> \in (1..view.totalPages) \X (1..PageSize) :
                     k <= Len(pages[p])}
    IN /\ \A p \in 1..view.totalPages : Len(pages[p]) <= PageSize
       /\ Cardinality(places) = Len(view.filteredProjects)
       /\ \A i \in 1..Len(s) :
            Cardinality({pl \in places : pages[pl[1]][pl[2]] = s[i]}) = 1
       /\ currentPage \in 1..view.totalPages =>
            view.paginatedProjects = pages[currentPage]

\* the third page of a 19-record list holds its last record
C5_Witness ==
  /\ view.rendered
  /\ Len(view.sortedProjects) = 2 * PageSize + 1
  /\ currentPage = 3
  /\ Len(view.paginatedProjects) = 1

\* C6: totalPages is the ceiling of the matching count over 9; 10 matching
\* records give 2 pages with 1 record on page 2; the last page holds
\* count - 9 * (totalPages - 1) records.
C6_TotalPagesIsCeiling ==
  view.rendered =>
    LET count == Len(view.filteredProjects)
        last == Paginate(view.sortedProjects, view.totalPages)
    IN /\ view.totalPages = CeilingOf(count, PageSize)
       /\ count = 10 =>
            view.totalPages = 2 /\ Len(Paginate(view.sortedProjects, 2)) = 1
       /\ count > 0 => Len(last) = count - PageSize * (view.totalPages - 1)

\* page 2 of a 10-record list has been rendered with its single record
C6_Witness ==
  /\ view.rendered
  /\ Len(view.filteredProjects) = 10
  /\ currentPage = 2
  /\ view.totalPages = 2
  /\ Len(view.paginatedProjects) = 1

PaginationEvents == {"previous", "next", "page"}

\* C7: a click on Previous, Next or a numbered button takes a page within
\* 1..totalPages to a page within 1..totalPages; Previous on page 1 and Next
\* on the last page leave the page as it is.
C7_ControlsKeepPageInRange ==
  [][(lastEvent'.kind \in PaginationEvents /\ currentPage \in 1..view.totalPages)
       => /\ view'.totalPages = view.totalPages
          /\ currentPage' \in 1..view.totalPages
          /\ (lastEvent'.kind = "previous" /\ currentPage = 1) => currentPage' = 1
          /\ (lastEvent'.kind = "next" /\ currentPage = view.totalPages)
               => currentPage' = currentPage]_vars

\* Next has been clicked and the view is on the last of three pages
C7_Witness ==
  /\ lastEvent.kind = "next"
  /\ view.totalPages = 3
  /\ currentPage = 3

\* C8: progress is an integer in 0..100, the rounded percentage of completed
\* tasks, and 0 for a record without tasks.
C8_ProgressIsRoundedPercentage ==
  view.rendered =>
    \A i \in 1..Len(view.cards) :
      LET project == view.paginatedProjects[i]
          progress == view.cards[i].progress
      IN /\ progress \in 0..100
         /\ project.taskCount = 0 => progress = 0
         /\ project.taskCount # 0 =>
              progress = RoundedPercent(project.completedTaskCount, project.taskCount)

\* C9: priority is High for OnHold, else Medium for InProgress with progress
\* below 30, else Low for Planning, else Normal; 3 of 10 tasks is Normal.
C9_PriorityRule ==
  view.rendered =>
    \A i \in 1..Len(view.cards) :
      LET project == view.paginatedProjects[i]
          expected ==
            IF project.status = Some(OnHold) THEN "High"
            ELSE IF project.status = Some(InProgress)
                      /\ SpecifiedProgress(project) < 30 THEN "Medium"
            ELSE IF project.status = Some(Planning) THEN "Low"
            ELSE "Normal"
      IN /\ view.cards[i].priority = expected
         /\ (project.status = Some(InProgress) /\ project.taskCount = 10
               /\ project.completedTaskCount = 3) => view.cards[i].priority = "Normal"

\* the card of an InProgress project with 3 of 10 tasks done has been rendered
C9_Witness ==
  /\ view.rendered
  /\ Len(projects) = 1
  /\ projects[1].status = Some(InProgress)
  /\ projects[1].taskCount = 10
  /\ projects[1].completedTaskCount = 3
  /\ view.cards[1].progress = 30
  /\ view.cards[1].priority = "Normal"

UnrestrictedTabs == <<"overview", "projects", "construction", "planning", "reports">>

\* C10: for every role, and for no role, the tabs offered are the five
\* unrestricted tabs, followed by analytics exactly when the role is Admin
\* or Manager.
C10_TabsOfferedByRole ==
  LET offered ==
        IF roleName \in {Some("Admin"), Some("Manager")}
          THEN UnrestrictedTabs \o <<"analytics">>
          ELSE UnrestrictedTabs
  IN nav.filteredItems = offered /\ nav.availableTabs = offered

\* a Manager has followed the Analytics item of the sidebar
C10_Witness ==
  /\ roleName = Some("Manager")
  /\ activeTab = "analytics"
  /\ nav.filteredItems[6] = "analytics"

\* the list view is mounted, not loading, and the fetch has reported an error
ErrorReported ==
  /\ activeTab = "projects"
  /\ ~loading
  /\ ~IsNull(error)

C11_ErrorPanelShown ==
  ErrorReported =>
    /\ panel = "error"
    /\ ~view.rendered
    /\ view.paginatedProjects = <<>>
    /\ view.cards = <<>>

C11_RetryInvokesRefreshOnce ==
  lastEvent'.kind = "tryAgain" =>
    /\ ErrorReported
    /\ issued' = issued + 1
    /\ inFlight' = inFlight + 1

\* C11: whenever the project-list fetch has reported an error and loading is
\* false, the list view shows the error panel and none of the records, and a
\* click on Try Again invokes the refresh collaborator exactly once.
C11_ErrorPanelAndRetry ==
  []C11_ErrorPanelShown /\ [][C11_RetryInvokesRefreshOnce]_vars

\* Try Again has been clicked on the error panel of a list that holds records
C11_Witness ==
  /\ lastEvent.kind = "tryAgain"
  /\ Len(projects) > 0
  /\ panel = "error"

\* C12: whenever an active-count query of the mounted overview tab fails, the
\* displayed active-project count becomes the length of the project list that
\* is loaded at that moment, and no error state appears.
C12_FailedCountFallsBackToListLength ==
  [][(lastEvent'.kind = "countFailed" /\ settled'.live) =>
       /\ activeProjectsCount' = Len(projects')
       /\ error' = error
       /\ panel' = panel]_vars

\* what a resolved query has to write: totalCount on success, the list length
\* of its closure on failure
Outcome(query) == IF query.failed THEN query.length ELSE query.totalCount

OverviewMounted == TabMounted(loading, activeTab, "overview")

\* C14: the active-projects query is issued exactly once per mount of the
\* overview tab: one query when the tab mounts, and none while it stays
\* mounted, however the loaded project list changes.
C14_QueryIssuedOncePerMount ==
  [][/\ (~OverviewMounted /\ OverviewMounted') => queries' = queries + 1
     /\ (OverviewMounted /\ OverviewMounted') => queries' = queries]_vars

\* C14, amended: one query is issued when the overview tab mounts, one more
\* after every render of the mounted tab in which the length of the loaded
\* list differs from the render before, and none otherwise; a list of the
\* same length with other records issues none.
C14_QueryIssuedOnMountAndLengthChange ==
  [][/\ (~OverviewMounted /\ OverviewMounted') => queries' = queries + 1
     /\ (OverviewMounted /\ OverviewMounted' /\ Len(projects') # Len(projects))
          => queries' = queries + 1
     /\ (OverviewMounted /\ OverviewMounted' /\ Len(projects') = Len(projects))
          => queries' = queries
     /\ ~OverviewMounted' => queries' = queries]_vars

\* the mounted tab holds the query of its mount, superseded, and the query a
\* change of the list length issued
C14_Witness ==
  /\ OverviewMounted
  /\ lastEvent.kind = "loaded"
  /\ Len(pending) = 2
  /\ pending[1].live /\ ~pending[1].latest
  /\ pending[2].live /\ pending[2].latest
  /\ pending[2].length = Len(projects)
  /\ pending[1].length # pending[2].length

\* the user actions that call refreshProjects
UserRetries == {"tryAgain", "refresh", "created"}

\* C15: no fetch is re-issued automatically after a failure: a project-list
\* fetch is issued only by Try Again, the refresh button or the Create
\* Project confirmation, one per click; a failing project-list fetch and a
\* failing active-count query issue nothing; an active-count query is issued
\* only when the overview tab mounts or the length of the list changes.
C15_NoAutomaticRetry ==
  [][/\ issued' # issued =>
          (issued' = issued + 1 /\ lastEvent'.kind \in UserRetries)
     /\ lastEvent'.kind = "failed" =>
          (issued' = issued /\ inFlight' = inFlight - 1)
     /\ lastEvent'.kind = "countFailed" =>
          (issued' = issued /\ inFlight' = inFlight /\ queries' = queries
             /\ Len(pending') = Len(pending) - 1)
     /\ queries' # queries =>
          (~OverviewMounted \/ Len(projects') # Len(projects))]_vars

\* a project-list fetch and an active-count query have both failed, and
\* nothing is in flight
C15_Witness ==
  /\ lastEvent.kind = "countFailed"
  /\ settled.failed
  /\ ~IsNull(error)
  /\ inFlight = 0
  /\ pending = <<>>

\* C16: for the empty project list the KPI totals (projects, budget, spent,
\* capacity) are all 0, budgetUtilization is 0 and a defined number, and the
\* overview table shows its empty-state row and no project row.
C16_EmptyListKpis ==
  (overview.rendered /\ Len(projects) = 0) =>
    /\ Val(overview.stats).totalProjects = 0
    /\ overview.totalBudget = 0
    /\ overview.totalSpent = 0
    /\ overview.totalCapacity = 0
    /\ overview.budgetUtilization = ZeroDouble
    /\ overview.utilizationShown = [defined |-> TRUE, tenths |-> 0]
    /\ overview.emptyRow
    /\ overview.rows = <<>>

\* the overview of the empty list has been rendered
C16_Witness ==
  /\ overview.rendered
  /\ projects = <<>>
  /\ overview.emptyRow

\* the sum of a field over a list, a missing value counted as 0
FieldTotal(list, field) ==
  LET present == {i \in 1..Len(list) : ~IsNull(list[i][field])}
      RECURSIVE Total(_)
      Total(S) == IF S = {} THEN 0
                  ELSE LET i == CHOOSE n \in S : TRUE
                       IN Val(list[i][field]) + Total(S \ {i})
  IN Total(present)

\* 100 * spent / budget to one decimal, a half upward
PercentTenths(spent, budget) == (2000 * spent + budget) \div (2 * budget)

\* C17: for every non-empty project list the budget utilization shown is
\* 100 * totalSpent / max(totalBudget, 1), to the one decimal the card shows,
\* where totalSpent and totalBudget are the sums of ftsValue and revenueValue
\* with missing values counted as 0; the denominator is never 0.
C17_BudgetUtilizationShown ==
  (overview.rendered /\ Len(projects) > 0) =>
    LET spent == FieldTotal(projects, "ftsValue")
        budget == FieldTotal(projects, "revenueValue")
        denominator == IF budget > 1 THEN budget ELSE 1
    IN /\ overview.totalSpent = spent
       /\ overview.totalBudget = budget
       /\ overview.utilizationShown.defined
       /\ overview.utilizationShown.tenths = PercentTenths(spent, denominator)

\* C18: the sorted sequence is as long as the filtered list, and sorting it
\* again by the same key gives the same sequence.  A sort that throws yields
\* no sequence.
C18_SortKeepsLengthAndIsIdempotent ==
  /\ ~view.thrown
  /\ view.rendered =>
       /\ Len(view.sortedProjects) = Len(view.filteredProjects)
       /\ Sort(view.sortedProjects, sortBy) = view.sortedProjects

\* C19: filtering by the search term and then by the status, and filtering by
\* the status and then by the search term, both give the sequence the
\* combined filter gives.
C19_FilterOrderIrrelevant ==
  view.rendered =>
    LET bySearch == SelectSeq(projects, LAMBDA p : matchesSearch(p, searchTerm))
        byStatus == SelectSeq(projects, LAMBDA p : matchesStatus(p, statusFilter))
    IN /\ SelectSeq(bySearch, LAMBDA p : matchesStatus(p, statusFilter))
            = view.filteredProjects
       /\ SelectSeq(byStatus, LAMBDA p : matchesSearch(p, searchTerm))
            = view.filteredProjects

\* either predicate alone keeps a record the other one drops, and one record
\* passes both
C19_Witness ==
  /\ view.rendered
  /\ Len(view.filteredProjects) = 1
  /\ \E i \in 1..Len(projects) :
       matchesSearch(projects[i], searchTerm) /\ ~matchesStatus(projects[i], statusFilter)
  /\ \E i \in 1..Len(projects) :
       ~matchesSearch(projects[i], searchTerm) /\ matchesStatus(projects[i], statusFilter)

\* the whole number of days d with d days <= end - t < d + 1 days
WholeDaysUntil(endDate, t) ==
  LET hours == EndTime(endDate) - NowTime(t)
  IN CHOOSE d \in -1000..1000 : 24 * d <= hours /\ hours < 24 * (d + 1)

HasEndDate(project) ==
  /\ ~IsNull(project.estimatedEndDate)
  /\ Val(project.estimatedEndDate) # EmptyString
  /\ IsValidDate(Val(project.estimatedEndDate))

\* the wording of a message for a progress and a number of days, the
\* wording for fewer than seven days left open
Wording(m, progress, hasEnd, d, soon) ==
  IF progress = 100 THEN m.text = "Completed"
  ELSE IF hasEnd /\ d < 0 THEN m.text = "Overdue"
  ELSE IF hasEnd /\ d < 7 THEN soon
  ELSE IF hasEnd /\ d < 30 THEN m.text = "Due in N days" /\ m.n = Some(d)
  ELSE m.text = "N% complete" /\ m.n = Some(progress)

\* C20: the completion message is "Completed" at progress 100; otherwise
\* "Overdue" for a negative number of whole days to the end date, "Due soon"
\* for fewer than 7, "Due in N days" for fewer than 30, and "{progress}%
\* complete" for 30 or more days or no end date.
C20_CompletionMessage ==
  \A i \in 1..Len(messages) :
    LET project == projects[i]
        hasEnd == HasEndDate(project)
        d == IF hasEnd THEN WholeDaysUntil(Val(project.estimatedEndDate), now)
             ELSE 0
    IN Wording(messages[i], calculateProgress(project), hasEnd, d,
               messages[i].text = "Due soon")

\* C20, amended: as above, but from 0 to 6 days the message is "Due in N
\* days" with N the number of days, as it is from 7 to 29.
C20_CompletionMessageDueInDays ==
  \A i \in 1..Len(messages) :
    LET project == projects[i]
        hasEnd == HasEndDate(project)
        d == IF hasEnd THEN WholeDaysUntil(Val(project.estimatedEndDate), now)
             ELSE 0
    IN Wording(messages[i], calculateProgress(project), hasEnd, d,
               messages[i].text = "Due in N days" /\ messages[i].n = Some(d))

\* a card of an unfinished project rendered less than a day before its end
\* date, and not at midnight
C20_Witness ==
  /\ Len(messages) = 1
  /\ messages[1].text = "Due in N days"
  /\ messages[1].n = Some(0)
  /\ now[4] # 0
  /\ calculateProgress(projects[1]) \notin {0, 100}

\* C21: the derivation produces a result for every project list; for the
\* empty list the result has no page items, 0 matching records and 0 pages;
\* and computing it leaves the project list and the view state as they were.
C21_ResultForEveryList ==
  /\ ~view.thrown
  /\ (view # NotRendered /\ Len(projects) = 0) =>
       /\ view.rendered
       /\ view.paginatedProjects = <<>>
       /\ Len(view.filteredProjects) = 0
       /\ view.totalPages = 0

C21_InputsUntouched ==
  /\ projects' = projects
  /\ <<searchTerm', statusFilter', sortBy', viewMode', currentPage'>>
       = <<searchTerm, statusFilter, sortBy, viewMode, currentPage>>

C21_PipelinePureAndTotal == []C21_ResultForEveryList /\ [][C21_InputsUntouched]_vars

\* C22: a step that changes the sort key ends with the current page at 1.
C22_SortChangeResetsPage == [][sortBy' # sortBy => currentPage' = 1]_vars

\* C23: once no active-count query is in flight, the count the overview tab
\* displays is what the most recently issued query resolved to, whatever
\* order the queries resolved in.
C23_LatestQueryWins ==
  (OverviewMounted /\ pending = <<>> /\ ~IsNull(latestOutcome)) =>
    activeProjectsCount = Val(latestOutcome)

\* C24: the Analytics tab content is rendered only while the role is Admin
\* or Manager, also after the role changes with Analytics selected.
C24_AnalyticsOnlyForAdminOrManager ==
  TabContent(loading, activeTab) = "analytics" => isAdminOrManager(roleName)

\* C25: for every role value the sidebar's role filter and the dashboard's
\* availableTabs filter select the same set of tab identifiers.
C25_SidebarAndTabsAgree ==
  \A id \in TabIds :
    (\E i \in 1..Len(nav.filteredItems) : nav.filteredItems[i] = id)
      <=> (\E j \in 1..Len(nav.availableTabs) : nav.availableTabs[j] = id)

\* the role has just become the empty string, and neither filter selects
\* Analytics
C25_Witness ==
  /\ lastEvent.kind = "role"
  /\ roleName = Some("")
  /\ \A i \in 1..Len(nav.filteredItems) : nav.filteredItems[i] # "analytics"
  /\ Len(nav.availableTabs) = Len(UnrestrictedTabs)

\* the overlay of AppShell is rendered
MobileOverlayShown == isMobile /\ sidebarOpen

C29_AfterResize ==
  /\ isMobile = (innerWidth < 1024)
  /\ lastEvent.kind = "resize" => sidebarOpen = (innerWidth >= 1024)
  /\ lastEvent.kind = "overlay" => ~sidebarOpen

C29_ToggleAndOverlay ==
  /\ lastEvent'.kind = "toggle" =>
       sidebarOpen' = ~sidebarOpen /\ innerWidth' = innerWidth
  /\ lastEvent'.kind = "overlay" => MobileOverlayShown
  /\ MobileOverlayShown => ENABLED OverlayClick

\* C29: after a resize the sidebar is open exactly when the viewport is at
\* least 1024 wide, whatever was toggled before; a toggle flips the open
\* state; the mobile overlay is shown exactly when the viewport is mobile and
\* the sidebar is open, and a click on it closes the sidebar.
C29_SidebarFollowsViewport == []C29_AfterResize /\ [][C29_ToggleAndOverlay]_vars

\* on a narrow viewport the sidebar was toggled open, which showed the
\* overlay, and a click on the overlay has closed it
C29_Witness ==
  /\ lastEvent.kind = "overlay"
  /\ innerWidth = Breakpoint - 1
  /\ isMobile
  /\ ~sidebarOpen

\* C26: for every project list the budget utilization of the dashboard's
\* statistics equals the value of the overview tab's own formula, which is 0
\* when the total budget is not positive and else 100 * spent / budget.
C26_StatsAgreeWithFallback ==
  overview.rendered =>
    Val(overview.stats).budgetUtilization
      = RenderOverview(projects, NULL, activeProjectsCount).budgetUtilization

\* no create-project control is offered to a role that is neither Admin nor
\* Manager
C27_NoControlOffered ==
  ~(roleName \in {Some("Admin"), Some("Manager")}) =>
    CreateControls(roleName, panel, view, searchTerm, statusFilter) = {}

\* no step from a state with such a role opens the modal
C27_ModalStaysShut ==
  (~(roleName \in {Some("Admin"), Some("Manager")}) /\ ~showCreateModal)
    => ~showCreateModal'

\* C27: while the role is neither Admin nor Manager, neither the header
\* button nor the empty-state button for creating a project is offered, and
\* the create-project modal is not opened from such a state.
C27_CreateOnlyForAdminOrManager == []C27_NoControlOffered /\ [][C27_ModalStaysShut]_vars

\* a user who is neither Admin nor Manager looks at the empty state of the
\* list, after a refresh
C27_Witness ==
  /\ roleName = Some("User")
  /\ panel = "list"
  /\ view.rendered
  /\ Len(view.sortedProjects) = 0
  /\ issued > 1
  /\ ~showCreateModal


\* Clear all filters is offered only while no record matches and a search
\* term or a status filter is set
C28_OfferedOnlyWhenEmptyAndFiltered ==
  ClearFiltersOffered(view, searchTerm, statusFilter) =>
    /\ Len(Filter(projects, searchTerm, statusFilter)) = 0
    /\ (searchTerm # EmptyString \/ statusFilter # AllStatuses)

\* what the list view shows once Clear all filters was taken
C28_AfterClear ==
  lastEvent'.kind = "clear" =>
    /\ searchTerm' = EmptyString
    /\ statusFilter' = AllStatuses
    /\ view'.rendered
    /\ view'.filteredProjects = projects'
    /\ currentPage' = 1
    /\ sortBy' = sortBy
    /\ viewMode' = viewMode

\* C28: Clear all filters is offered only when no record matches and a
\* filter is active; taking it leaves the search term empty and the status
\* filter "all", so that every record matches, on page 1, with the sort key
\* and the view mode as they were.
C28_ClearAllFilters == []C28_OfferedOnlyWhenEmptyAndFiltered /\ [][C28_AfterClear]_vars


\* no project is ever selected, so the details modal is never displayed
C30_NothingSelected ==
  /\ selectedProject = NULL
  /\ ~DetailsModalShown(selectedProject)

\* a click on a project of the page sends the router to that project's route
C30_ClickNavigates ==
  (lastEvent'.kind = "open" \/ route' # route) =>
    \E i \in 1..Len(view.paginatedProjects) :
      route' = Some(<<"projects", view.paginatedProjects[i].projectId>>)

\* C30: selectedProject is null in every state, the project details modal is
\* never displayed, and a click on a project navigates to the route
\* /projects/<projectId> of the clicked record.
C30_ClickNavigatesWithoutDetails == []C30_NothingSelected /\ [][C30_ClickNavigates]_vars

\* a project of the second page was clicked
C30_Witness ==
  /\ lastEvent.kind = "open"
  /\ currentPage = 2
  /\ ~IsNull(route)
  /\ Val(route)[1] = "projects"
  /\ selectedProject = NULL
====
